---- MODULE Spec2Model ----
(***************************************************************************)
(* Model of the state-synchronisation and combat core of the pen-fighting  *)
(* arena (GameArena in GameModeSelector.tsx, types in unnamed/part_000).   *)
(*                                                                         *)
(* Every peer owns one GameState and reduces it in a single event loop.    *)
(* Lengths are integers in units of 0.05 world units (0.8 = 16, 8 = 160),  *)
(* times are milliseconds.  A JavaScript object is a function on its       *)
(* property names: a missing property reads as undefined.                  *)
(*                                                                         *)
(* Beside the arena stand the reducer of SpectatorMode, the registration   *)
(* and the first round of TournamentSystem (unnamed/part_001) and the      *)
(* screens of App; each keeps its own variables.                           *)
(***************************************************************************)
EXTENDS Integers, Sequences, FiniteSets, TLC

VARIABLES
    gameState,      \* peer -> GameState (useState at line 525)
    closure,        \* peer -> gameState.powerUps as captured by the last render
    dirty,          \* peer -> a state update is queued and not rendered yet
    crashed,        \* peer -> an updater or the render threw: tree unmounted
    ui,             \* peer -> isDrawing, currentStroke, the stopDrawing in flight,
                    \*         the position of setupGame, the peer has left
    room,           \* the peers subscribed to the room's channel
    loopback,       \* the channel delivers a publisher its own messages
    net,            \* envelopes published and not yet delivered
    now,            \* Date.now()
    outcome,        \* history: peer -> power-up id -> how it first left the mapping
    last,           \* the last operation performed and its input
    db,             \* the stored row of a tournament (blink.db.tournaments)
    tournaments,    \* user -> the list loaded by loadTournaments (part_001:49)
    calls,          \* user -> selectedTournament, a load in flight, and the
                    \*         history of the user's successful join
    app             \* App's gameState, currentRoom, playerName, selectedGameMode
                    \* and soundEnabled

vars == <<gameState, closure, dirty, crashed, ui, room, loopback, net, now,
          outcome, last, db, tournaments, calls, app>>

\* the state of the arena's peers, of TournamentSystem and of App
arenaVars == <<gameState, closure, dirty, crashed, ui, room, loopback, net, now,
               outcome>>
tournamentVars == <<db, tournaments, calls>>

----------------------------------------------------------------------------
(* Bounds of the model *)

MaxTicks == 4
MaxStrokes == 2
MaxEffects == 2
MaxPoints == 2
MaxNet == 2
MaxMoves == 1
MaxDrawn == 1
MaxLongPoints == 13
MaxMoveSeq == 2

(* Program constants *)

EffectMs == 10000
PowerUpMs == 30000
Multiplier15 == 15
StartHealth == 100
PerPointDamage == 2
DamageCap == 25
HitRadius == 16
MoveSpeed == 2
ArenaHalf == 160
SpawnDelayMs == 5000
SpawnHalf == 100
TimeAttackMaxPlayers == 2
TimeAttackMinutes == 3
SpawnEveryMs == 15000

\* The clock of the model advances by one effect duration at a time.
TickMs == EffectMs

\* NaN, the result of arithmetic on undefined; never equal to a health value.
NaN == 0 - 999999

Peers == {"A", "B"}
\* A peer tracks the players of its last presence snapshot: "B" is an author
\* peer A does not track before a snapshot holds it.
Ids == {"A", "B", "C"}
PuIds == {"pu1", "pu2"}
\* The user that subscribed from SpectatorMode, with status 'spectating'.
Spectators == {"S"}

Pos(x, y, z) == [x |-> x, y |-> y, z |-> z]
Rot0 == Pos(0, 0, 0)

\* Faulty variant: a coordinate of a square twice as wide as the arena.
PresenceCoord_Wide(r) == 4 * r - 2 * ArenaHalf

\* Math.random() * 10 - 5, the random number times 10 given in units of 0.05
PresenceCoord(r) == r - SpawnHalf

\* the least and the greatest value of Math.random() * 10
PresenceDraws == {0, 2 * SpawnHalf - 1}

\* the positions line 783 gives for these
DrawnPositions ==
    {Pos(PresenceCoord(rx), 0, PresenceCoord(rz)) : rx, rz \in PresenceDraws}

\* Math.random() * 10 - 5 on x and z, y = 0: two of the values it can take.
SpawnPositions == {Pos(0, 0, 0), Pos(40, 0, -20)}

----------------------------------------------------------------------------
(* JavaScript objects *)

Has(o, f) == f \in DOMAIN o

Put(m, k, v) == [i \in DOMAIN m \cup {k} |-> IF i = k THEN v ELSE m[i]]

Del(m, k) == [i \in DOMAIN m \ {k} |-> m[i]]

Empty == [i \in {} |-> 0]

\* o.f used as a number: undefined coerces to NaN.
Num(o, f) == IF Has(o, f) THEN o[f] ELSE NaN

Sub(a, b) == IF a = NaN \/ b = NaN THEN NaN ELSE a - b

\* Math.max(0, v): NaN is contagious.
MathMax0(v) == IF v = NaN THEN NaN ELSE IF v > 0 THEN v ELSE 0

MathMin(a, b) == IF a < b THEN a ELSE b

Range(s) == {s[i] : i \in 1..Len(s)}

----------------------------------------------------------------------------
(* Records of part_000 *)

NewPlayer(id, pos) ==
    [id |-> id, position |-> pos, rotation |-> Rot0,
     health |-> StartHealth, maxHealth |-> StartHealth, isDrawing |-> FALSE,
     penStrokes |-> <<>>, activePowerUps |-> <<>>,
     score |-> 0, kills |-> 0, deaths |-> 0]

\* The game mode of the room: GAME_MODES' time_attack, lines 39-48.
TimeAttack ==
    [id |-> "time_attack", duration |-> TimeAttackMinutes,
     maxPlayers |-> TimeAttackMaxPlayers]

InitialGameState ==
    [players |-> Empty, powerUps |-> Empty, gameStatus |-> "waiting",
     gameMode |-> TimeAttack]

ActivePowerUp(type, endTime) ==
    [type |-> type, endTime |-> endTime, multiplier |-> Multiplier15]

PowerUpData(id, type, pos, ts) ==
    [id |-> id, type |-> type, position |-> pos, timestamp |-> ts,
     duration |-> PowerUpMs]

----------------------------------------------------------------------------
(* The State Reducer: handleGameMessage, lines 818-907 *)

MsgType(m) == IF Has(m, "type") THEN m.type ELSE "undefined"

\* {...player, [f]: v}
With(o, f, v) == IF Has(o, f) THEN [o EXCEPT ![f] = v] ELSE Put(o, f, v)

\* prev.players[id] spread into an object literal: {} when id is not tracked.
Spread(players, id) == IF Has(players, id) THEN players[id] ELSE Empty

\* message.data.damage as a condition
Truthy(n) == n # 0 /\ n # NaN

\* Faulty variant: the health delta without its clamp at 0.
Damaged_Unclamped(player, damage) ==
    With(player, "health", Sub(Num(player, "health"), damage))

\* health: Math.max(0, player.health - damage), lines 852, 869, 997
\* Faulty variant: a player at half health or less takes half the damage.
Damaged_Armoured(player, damage) ==
    With(player, "health",
         MathMax0(Sub(Num(player, "health"),
                      IF 2 * Num(player, "health") <= StartHealth
                      THEN damage \div 2 ELSE damage)))

Damaged(player, damage) ==
    With(player, "health", MathMax0(Sub(Num(player, "health"), damage)))

\* hitPlayers.forEach(playerId => if (newPlayers[playerId]) ...), lines 848-855
RECURSIVE ApplyDamage(_, _, _)
ApplyDamage(players, hitPlayers, damage) ==
    IF hitPlayers = <<>> THEN players
    ELSE LET id == Head(hitPlayers)
             next == IF Has(players, id)
                     THEN [players EXCEPT ![id] = Damaged(players[id], damage)]
                     ELSE players
         IN  ApplyDamage(next, Tail(hitPlayers), damage)

\* Faulty variant: the first position of an author is kept.
PlayerMove_KeepFirst(gs, m) ==
    IF Has(gs.players, m.playerId) /\ Has(gs.players[m.playerId], "position")
    THEN gs
    ELSE [gs EXCEPT !.players =
             Put(gs.players, m.playerId,
                 With(With(Spread(gs.players, m.playerId),
                           "position", m.data.position),
                      "rotation", m.data.rotation))]

\* Faulty variant: the author's record is replaced, not spread.
PlayerMove_Replace(gs, m) ==
    [gs EXCEPT !.players =
        Put(gs.players, m.playerId,
            [position |-> m.data.position, rotation |-> m.data.rotation])]

PlayerMove(gs, m) ==
    [gs EXCEPT !.players =
        Put(gs.players, m.playerId,
            With(With(Spread(gs.players, m.playerId),
                      "position", m.data.position),
                 "rotation", m.data.rotation))]

PenStroke(gs, m) ==
    LET id == m.playerId
        withStroke ==
            IF Has(gs.players, id)
            THEN [gs.players EXCEPT ![id] =
                    With(@, "penStrokes",
                         (IF Has(@, "penStrokes") THEN @.penStrokes ELSE <<>>)
                             \o <<m.data.stroke>>)]
            ELSE gs.players
        newPlayers ==
            IF Has(m.data, "hitPlayers") /\ Truthy(Num(m.data, "damage"))
            THEN ApplyDamage(withStroke, m.data.hitPlayers, m.data.damage)
            ELSE withStroke
    IN  [gs EXCEPT !.players = newPlayers]

\* Faulty variant: the attack adds its damage to the target's health.
PlayerAttack_Heals(gs, m) ==
    LET id == m.data.targetId
    IN  IF Has(gs.players, id)
        THEN [gs EXCEPT !.players[id] =
                 With(@, "health", Sub(Num(@, "health"), 0 - Num(m.data, "damage")))]
        ELSE gs

PlayerAttack(gs, m) ==
    LET id == m.data.targetId
    IN  IF Has(gs.players, id)
        THEN [gs EXCEPT !.players[id] = Damaged(@, Num(m.data, "damage"))]
        ELSE gs

PowerUpSpawn(gs, m) ==
    [gs EXCEPT !.powerUps = Put(@, m.data.powerUp.id, m.data.powerUp)]

PowerUpCollect(gs, m) ==
    LET id == m.playerId
        newPlayers ==
            IF Has(gs.players, id)
            THEN [gs.players EXCEPT ![id] =
                    With(@, "activePowerUps", @.activePowerUps \o <<m.data.effect>>)]
            ELSE gs.players
    IN  [gs EXCEPT !.players = newPlayers,
                   !.powerUps = Del(@, m.data.powerUpId)]

\* A TypeError raised inside the branch: a property of undefined is read.
Throws(gs, m) ==
    CASE MsgType(m) \in {"player_move", "pen_stroke", "player_attack"} ->
            ~Has(m, "data")
      [] MsgType(m) = "power_up_spawn" ->
            ~Has(m, "data") \/ ~Has(m.data, "powerUp")
      [] MsgType(m) = "power_up_collect" ->
            \/ ~Has(m, "data")
            \/ /\ Has(gs.players, m.playerId)
               /\ ~Has(gs.players[m.playerId], "activePowerUps")
      [] OTHER -> FALSE

\* Faulty variant: a reducer that tracks the author of a player_join.
handleGameMessage_Joins(gs, m) ==
    CASE MsgType(m) = "player_move" -> PlayerMove(gs, m)
      [] MsgType(m) = "pen_stroke" -> PenStroke(gs, m)
      [] MsgType(m) = "player_attack" -> PlayerAttack(gs, m)
      [] MsgType(m) = "power_up_spawn" -> PowerUpSpawn(gs, m)
      [] MsgType(m) = "power_up_collect" -> PowerUpCollect(gs, m)
      [] MsgType(m) = "player_join" ->
            [gs EXCEPT !.players = Put(@, m.playerId, NewPlayer(m.playerId, Rot0))]
      [] OTHER -> gs

handleGameMessage(gs, m) ==
    CASE MsgType(m) = "player_move" -> PlayerMove(gs, m)
      [] MsgType(m) = "pen_stroke" -> PenStroke(gs, m)
      [] MsgType(m) = "player_attack" -> PlayerAttack(gs, m)
      [] MsgType(m) = "power_up_spawn" -> PowerUpSpawn(gs, m)
      [] MsgType(m) = "power_up_collect" -> PowerUpCollect(gs, m)
      [] OTHER -> gs

----------------------------------------------------------------------------
(* The reducer of SpectatorMode: handleGameMessage, SpectatorMode.tsx 230-273 *)

SpectatorPlayerMove(gs, m) ==
    [gs EXCEPT !.players =
        Put(gs.players, m.playerId,
            With(With(Spread(gs.players, m.playerId),
                      "position", m.data.position),
                 "rotation", m.data.rotation))]

SpectatorPenStroke(gs, m) ==
    LET id == m.playerId
        withStroke ==
            IF Has(gs.players, id)
            THEN [gs.players EXCEPT ![id] =
                    With(@, "penStrokes",
                         (IF Has(@, "penStrokes") THEN @.penStrokes ELSE <<>>)
                             \o <<m.data.stroke>>)]
            ELSE gs.players
        newPlayers ==
            IF Has(m.data, "hitPlayers") /\ Truthy(Num(m.data, "damage"))
            THEN ApplyDamage(withStroke, m.data.hitPlayers, m.data.damage)
            ELSE withStroke
    IN  [gs EXCEPT !.players = newPlayers]

\* the switch has two cases and no default
SpectatorHandleGameMessage(gs, m) ==
    CASE MsgType(m) = "player_move" -> SpectatorPlayerMove(gs, m)
      [] MsgType(m) = "pen_stroke" -> SpectatorPenStroke(gs, m)
      [] OTHER -> gs

----------------------------------------------------------------------------
(* Inputs *)

\* x = -7.9: one step from the arena wall.
MsgPositions == {Pos(-158, 0, 0)}
MsgTimes == {0}
MsgStrokes == {[id |-> 1, points |-> <<Pos(0, 0, 0), Pos(10, 0, 0)>>, timestamp |-> 0]}
MsgHitLists == {<<>>, <<"A">>, <<"A", "B">>, <<"B">>}
MsgDamages == {0, 10, DamageCap}
MsgEffects == {ActivePowerUp("speed", 20000)}
MsgPowerUps ==
    {PowerUpData("pu1", "speed", Pos(20, 1, 20), ts) : ts \in MsgTimes}
    \cup {PowerUpData("pu2", "health", Pos(20, 1, 20), ts) : ts \in MsgTimes}

\* The tags of GameMessage no branch of the reducer handles, and one no version
\* of the type declares.
UnknownTypes ==
    {"player_join", "player_leave", "game_state", "game_mode_change",
     "countdown_start", "emote"}

\* Messages of those tags, and a published payload, which carries no tag.
UnknownMessages ==
    {[type |-> t, playerId |-> "B",
      data |-> [playerData |-> [health |-> StartHealth]]] : t \in UnknownTypes}
    \cup
    {[playerId |-> "B", position |-> q, rotation |-> Rot0] : q \in MsgPositions}

\* GameMessage values (part_000, lines 65-70) the channel can hand to the reducer:
\* movement and combat
CombatMessages ==
    {[type |-> "player_move", playerId |-> a,
      data |-> [position |-> q, rotation |-> Rot0]] :
        a \in {"B"}, q \in MsgPositions}
    \cup
    {[type |-> "pen_stroke", playerId |-> "B",
      data |-> [stroke |-> k, hitPlayers |-> h, damage |-> d]] :
        k \in MsgStrokes, h \in MsgHitLists, d \in MsgDamages}
    \cup
    {[type |-> "player_attack", playerId |-> "B",
      data |-> [targetId |-> t, damage |-> DamageCap]] : t \in {"A", "B"}}
    \cup
    UnknownMessages

\* what reaches a peer whose user is drawing: the opponent moves next to the
\* stroke or away from it, draws, and is hit
DrawPositions == {Pos(40, 0, -10), Pos(-158, 0, 0)}
DrawMessages ==
    {[type |-> "player_move", playerId |-> "B",
      data |-> [position |-> q, rotation |-> Rot0]] : q \in DrawPositions}
    \cup
    {[type |-> "pen_stroke", playerId |-> "B",
      data |-> [stroke |-> k, hitPlayers |-> <<>>, damage |-> 0]] : k \in MsgStrokes}
    \cup
    {[type |-> "player_attack", playerId |-> "A",
      data |-> [targetId |-> "B", damage |-> 4 * DamageCap]]}

\* the power-up lifecycle
SpawnMessages ==
    {[type |-> "power_up_spawn", playerId |-> "B",
      data |-> [powerUp |-> u]] : u \in MsgPowerUps}

PowerUpMessages ==
    SpawnMessages
    \cup
    {[type |-> "power_up_collect", playerId |-> a,
      data |-> [powerUpId |-> i, effect |-> e]] :
        a \in {"B"}, i \in PuIds, e \in MsgEffects}

\* player_move messages of two authors, two positions and two rotations
MoveAuthors == {"B", "C"}
MoveRotations == {Rot0, Pos(0, 20, 0)}
MoveMessages ==
    {[type |-> "player_move", playerId |-> a,
      data |-> [position |-> q, rotation |-> r]] :
        a \in MoveAuthors, q \in DrawPositions, r \in MoveRotations}

\* a move by an untracked author, a move whose payload is missing, and the
\* power-up messages
FaultMessages ==
    {[type |-> "player_move", playerId |-> "B",
      data |-> [position |-> q, rotation |-> Rot0]] : q \in MsgPositions}
    \cup {[type |-> "player_move", playerId |-> "B"]}
    \cup PowerUpMessages

PresenceSnapshots == {{"A"}, {"A", "B"}}

\* The operation, its peer, and what identifies its input: a tag, two numbers
\* and a list of player ids.
Op(name, p, tag, n, k, hits) ==
    [op |-> name, peer |-> p, tag |-> tag, n |-> n, k |-> k, hits |-> hits]

----------------------------------------------------------------------------
(* Render and the closures it creates *)

\* player.penStrokes.map(...) at line 1088 reads a property of undefined.
RenderThrows(gs) ==
    \E id \in DOMAIN gs.players : ~Has(gs.players[id], "penStrokes")

Render(p) ==
    /\ p \in room
    /\ ~crashed[p]
    /\ dirty[p]
    /\ IF RenderThrows(gameState[p])
       THEN /\ crashed' = [crashed EXCEPT ![p] = TRUE]
            /\ UNCHANGED closure
       ELSE /\ closure' = [closure EXCEPT ![p] = gameState[p].powerUps]
            /\ UNCHANGED crashed
    /\ dirty' = [dirty EXCEPT ![p] = FALSE]
    /\ UNCHANGED <<tournamentVars, app>>
    /\ last' = Op("render", p, "", 0, 0, <<>>)
    /\ UNCHANGED <<gameState, ui, room, loopback, net, now, outcome>>

\* setGameState(updater): the new state, or the updater's TypeError.
SetGameState(p, throws, new, why) ==
    IF throws
    THEN /\ crashed' = [crashed EXCEPT ![p] = TRUE]
         /\ UNCHANGED <<gameState, dirty, outcome>>
    ELSE /\ gameState' = [gameState EXCEPT ![p] = new]
         /\ dirty' = [dirty EXCEPT ![p] = dirty[p] \/ new # gameState[p]]
         /\ outcome' = [outcome EXCEPT ![p] =
                [id \in PuIds |->
                    IF /\ @[id] = "none"
                       /\ id \in DOMAIN gameState[p].powerUps
                       /\ id \notin DOMAIN new.powerUps
                    THEN why ELSE @[id]]]
         /\ UNCHANGED crashed

----------------------------------------------------------------------------
(* Inbound messages *)

\* Guards that keep the lists of the model finite.
WithinBounds(gs, m) ==
    /\ MsgType(m) = "pen_stroke" /\ Has(gs.players, m.playerId)
         /\ Has(gs.players[m.playerId], "penStrokes")
       => Len(gs.players[m.playerId].penStrokes) < MaxStrokes
    /\ MsgType(m) = "power_up_collect" /\ Has(gs.players, m.playerId)
         /\ Has(gs.players[m.playerId], "activePowerUps")
       => Len(gs.players[m.playerId].activePowerUps) < MaxEffects

\* The reducer applied to a GameMessage.
Receive(p, m) ==
    /\ p \in room
    /\ ~crashed[p]
    /\ WithinBounds(gameState[p], m)
    /\ SetGameState(p, Throws(gameState[p], m), handleGameMessage(gameState[p], m),
                    "collected")
    /\ UNCHANGED <<tournamentVars, app>>
    /\ last' = Op("recv", p, MsgType(m), 0, 0, <<>>)
    /\ UNCHANGED <<closure, ui, room, loopback, net, now>>

\* channel.onPresence, lines 777-798: the mapping is rebuilt from the snapshot.
Presence(users, pos) == [u \in users |-> NewPlayer(u, pos[u])]

OnPresence(p, users, pos) ==
    /\ p \in room
    /\ ~crashed[p]
    /\ SetGameState(p, FALSE, [gameState[p] EXCEPT !.players = Presence(users, pos)],
                    "none")
    /\ UNCHANGED <<tournamentVars, app>>
    /\ last' = Op("presence", p, "", Cardinality(users), 0, <<>>)
    /\ UNCHANGED <<closure, ui, room, loopback, net, now>>

----------------------------------------------------------------------------
(* Expiry sweep: cleanupInterval, lines 645-683 *)

\* Faulty variant: the age compared with twice the duration.
Expired_Late(powerUp, t) == t - powerUp.timestamp > 2 * powerUp.duration

Expired(powerUp, t) == t - powerUp.timestamp > powerUp.duration

SweepPowerUps(powerUps, t) ==
    [id \in {i \in DOMAIN powerUps : ~Expired(powerUps[i], t)} |-> powerUps[id]]

\* Faulty variant: an effect kept at the instant of its expiry.
Alive_Inclusive(pu, t) == pu.endTime >= t

Alive(pu, t) == pu.endTime > t

SweepEffects(effects, t) == SelectSeq(effects, LAMBDA pu : Alive(pu, t))

\* Faulty variant: every effect is dropped, expired or not.
SweepPlayers_Clear(players, t) ==
    [id \in DOMAIN players |-> [players[id] EXCEPT !.activePowerUps = <<>>]]

SweepPlayers(players, t) ==
    [id \in DOMAIN players |->
        IF Len(SweepEffects(players[id].activePowerUps, t))
             # Len(players[id].activePowerUps)
        THEN [players[id] EXCEPT
                !.activePowerUps = SweepEffects(players[id].activePowerUps, t)]
        ELSE players[id]]

EffectsOf(players, id) ==
    IF Has(players, id) /\ Has(players[id], "activePowerUps")
    THEN Len(players[id].activePowerUps) ELSE 0

EffectCount(players) ==
    EffectsOf(players, "A") + EffectsOf(players, "B") + EffectsOf(players, "C")

\* player.activePowerUps.filter on a record without the list
SweepThrows(gs) ==
    \E id \in DOMAIN gs.players : ~Has(gs.players[id], "activePowerUps")

SweepState(gs, t) ==
    [gs EXCEPT !.powerUps = SweepPowerUps(gs.powerUps, t),
               !.players = SweepPlayers(gs.players, t)]

Sweep(p) ==
    /\ p \in room
    /\ ~crashed[p]
    /\ SetGameState(p, SweepThrows(gameState[p]), SweepState(gameState[p], now),
                    "expired")
    /\ UNCHANGED <<tournamentVars, app>>
    /\ last' = IF SweepThrows(gameState[p])
               THEN Op("sweep", p, "", 0, 0, <<>>)
               ELSE Op("sweep", p, "",
                       Cardinality(DOMAIN gameState[p].powerUps)
                         - Cardinality(DOMAIN SweepPowerUps(gameState[p].powerUps, now)),
                       EffectCount(gameState[p].players)
                         - EffectCount(SweepPlayers(gameState[p].players, now)),
                       <<>>)
    /\ UNCHANGED <<closure, ui, room, loopback, net, now>>

Tick ==
    /\ now + TickMs <= MaxTicks * TickMs
    /\ now' = now + TickMs
    /\ UNCHANGED <<tournamentVars, app>>
    /\ last' = Op("tick", "A", "", 0, 0, <<>>)
    /\ UNCHANGED <<gameState, closure, dirty, crashed, ui, room, loopback, net, outcome>>

----------------------------------------------------------------------------
(* The pub/sub channel *)

\* The subscribers a message published by p is delivered to.
Subscribers(p) == IF loopback THEN room ELSE room \ {p}

\* channel.publish(type, payload): one envelope for every subscriber it is
\* delivered to; onMessage hands each the envelope, whose data is the payload.
Envelopes(p, type, payload) ==
    {[to |-> q, from |-> p, type |-> type, data |-> payload] : q \in Subscribers(p)}

Publish(p, type, payload) ==
    /\ Cardinality(net \cup Envelopes(p, type, payload)) <= MaxNet
    /\ net' = net \cup Envelopes(p, type, payload)

\* channel.onMessage, lines 771-774: gameMsg = message.data
Deliver(p, e) ==
    /\ p \in room
    /\ ~crashed[p]
    /\ e \in net
    /\ e.to = p
    /\ net' = net \ {e}
    /\ SetGameState(p, Throws(gameState[p], e.data),
                    handleGameMessage(gameState[p], e.data), "collected")
    /\ UNCHANGED <<tournamentVars, app>>
    /\ last' = Op("deliver", p, e.type, 0, 0, <<>>)
    /\ UNCHANGED <<closure, ui, room, loopback, now>>

----------------------------------------------------------------------------
(* Local collection: handlePowerUpCollect, lines 550-594 *)

\* Faulty variant: the effect runs from the power-up's spawn time.
CollectEffect_FromSpawn(powerUp, t) ==
    ActivePowerUp(powerUp.type, powerUp.timestamp + EffectMs)

CollectEffect(powerUp, t) == ActivePowerUp(powerUp.type, t + EffectMs)

\* The updater at lines 564-581, applied to the state current when it runs.
CollectUpdate(gs, self, powerUpId, effect) ==
    [gs EXCEPT
        !.players = IF Has(gs.players, self)
                    THEN [gs.players EXCEPT ![self] =
                            With(@, "activePowerUps", @.activePowerUps \o <<effect>>)]
                    ELSE gs.players,
        !.powerUps = Del(@, powerUpId)]

CollectThrows(gs, self) ==
    Has(gs.players, self) /\ ~Has(gs.players[self], "activePowerUps")

\* A click on a rendered PowerUp: the id and its record come from the render.
LocalCollect(p, powerUpId) ==
    /\ p \in room
    /\ ~crashed[p]
    /\ powerUpId \in DOMAIN closure[p]
    /\ Has(gameState[p].players, p) /\ Has(gameState[p].players[p], "activePowerUps")
       => Len(gameState[p].players[p].activePowerUps) < MaxEffects
    /\ LET effect == CollectEffect(closure[p][powerUpId], now)
       IN  /\ SetGameState(p, CollectThrows(gameState[p], p),
                           CollectUpdate(gameState[p], p, powerUpId, effect),
                           "collected")
           /\ Publish(p, "power_up_collect",
                      [playerId |-> p, powerUpId |-> powerUpId, effect |-> effect])
    /\ UNCHANGED <<tournamentVars, app>>
    /\ last' = Op("collect", p, powerUpId, 0, 0, <<>>)
    /\ UNCHANGED <<closure, ui, room, loopback, now>>

----------------------------------------------------------------------------
(* Entering and leaving a room: the effect at lines 755-816 *)

\* setupGame after `await channel.subscribe(...)`, lines 770-807: the handlers
\* are registered and player_join is published. Nothing tests whether the
\* cleanup has run in between; a peer that has left stays out of the room.
setupGameSubscribed(p) ==
    /\ ui[p].setup = "subscribing"
    /\ ~crashed[p]
    /\ room' = IF ui[p].left THEN room ELSE room \cup {p}
    /\ Publish(p, "player_join",
               [playerId |-> p,
                playerData |-> [name |-> p, position |-> Pos(0, 0, 0),
                                health |-> StartHealth]])
    /\ ui' = [ui EXCEPT ![p].setup = "joining"]
    /\ UNCHANGED <<tournamentVars, app>>
    /\ last' = Op("subscribed", p, "", 0, 0, <<>>)
    /\ UNCHANGED <<gameState, closure, dirty, crashed, loopback, now, outcome>>

\* setupGame after `await channel.publish('player_join', ...)`: it ends.
setupGameJoined(p) ==
    /\ ui[p].setup = "joining"
    /\ ~crashed[p]
    /\ ui' = [ui EXCEPT ![p].setup = "done"]
    /\ UNCHANGED <<tournamentVars, app>>
    /\ last' = Op("joined", p, "", 0, 0, <<>>)
    /\ UNCHANGED <<gameState, closure, dirty, crashed, room, loopback, net, now,
                   outcome>>

\* The cleanup at lines 813-815, with those of the timers (lines 637-640, 682)
\* and of the listeners: channelRef.current?.unsubscribe(). The component is
\* unmounted: its handlers and timers run no more, and React drops the state
\* updates of what is still in flight.
Leave(p) ==
    /\ ~ui[p].left
    /\ p \in room \/ ui[p].setup # "done"
    /\ room' = room \ {p}
    /\ ui' = [ui EXCEPT ![p].left = TRUE]
    /\ UNCHANGED <<tournamentVars, app>>
    /\ last' = Op("leave", p, "", 0, 0, <<>>)
    /\ UNCHANGED <<gameState, closure, dirty, crashed, loopback, net, now, outcome>>

----------------------------------------------------------------------------
(* Spawning: the effect at lines 597-642 *)

PowerUpTypes == <<"speed", "damage", "health", "shield", "multishot">>

\* powerUpTypes[Math.floor(Math.random() * powerUpTypes.length)], the random
\* number given by the index it selects
RandomType(r) == PowerUpTypes[r + 1]

\* Faulty variant: a coordinate over twice the width of the arena.
SpawnCoord_Wide(r) == 2 * r - 2 * ArenaHalf

\* (Math.random() - 0.5) * 16, the random number times 16 given in units of 0.05
SpawnCoord(r) == r - ArenaHalf

\* what Math.random() gives for the type, and for a coordinate: its least
\* and its greatest value
TypeDraws == {0, 4}
CoordDraws == {0, 2 * ArenaHalf - 1}

\* `powerup-${Date.now()}-${Math.random()}`: an id nothing has used before
FreshId(p, id) == id \notin DOMAIN gameState[p].powerUps /\ outcome[p][id] = "none"

\* spawnPowerUp, lines 600-629.
spawnPowerUp(p, id, rt, rx, rz) ==
    /\ p \in room
    /\ ~crashed[p]
    /\ FreshId(p, id)
    /\ LET powerUp == PowerUpData(id, RandomType(rt),
                                  Pos(SpawnCoord(rx), 20, SpawnCoord(rz)), now)
       IN  /\ SetGameState(p, FALSE,
                           [gameState[p] EXCEPT !.powerUps = Put(@, powerUp.id, powerUp)],
                           "none")
           /\ Publish(p, "power_up_spawn", [powerUp |-> powerUp])
    /\ UNCHANGED <<tournamentVars, app>>
    /\ last' = Op("spawn", p, id, 0, 0, <<>>)
    /\ UNCHANGED <<closure, ui, room, loopback, now>>

\* Faulty variant: the timers run whatever the status is.
SpawnTimer_Ungated(p, id, rt, rx, rz) ==
    /\ now >= SpawnDelayMs \/ now >= SpawnEveryMs
    /\ spawnPowerUp(p, id, rt, rx, rz)

\* The moments at which a spawn is due: 5 s after the peer entered, and every
\* 15 s. The effect registers its timers only while the status is 'playing'
\* (line 598); otherwise nothing runs at these moments.
SpawnTimer(p, id, rt, rx, rz) ==
    /\ now >= SpawnDelayMs \/ now >= SpawnEveryMs
    /\ IF gameState[p].gameStatus = "playing"
       THEN spawnPowerUp(p, id, rt, rx, rz)
       ELSE /\ p \in room
            /\ ~crashed[p]
            /\ UNCHANGED <<tournamentVars, app>>
            /\ last' = Op("spawnDue", p, "", 0, 0, <<>>)
            /\ UNCHANGED <<gameState, closure, dirty, crashed, ui, room, loopback,
                           net, now, outcome>>

----------------------------------------------------------------------------
(* Strokes: lines 909-1006 *)

IdOrder == <<"A", "B", "C", "S">>

\* Object.values(players): the records in key order.
Values(players) ==
    LET keys == SelectSeq(IdOrder, LAMBDA id : Has(players, id))
    IN  [i \in 1..Len(keys) |-> players[keys[i]]]

PlayerId(player) == IF Has(player, "id") THEN player.id ELSE "undefined"

\* player.health <= 0: false for undefined and for NaN
Dead(player) ==
    Has(player, "health") /\ player.health # NaN /\ player.health <= 0

Sq(n) == n * n

\* Math.sqrt(dx^2 + dy^2 + dz^2) < 0.8
Near(point, position) ==
    Sq(point.x - position.x) + Sq(point.y - position.y) + Sq(point.z - position.z)
        < Sq(HitRadius)

Struck(player, self, points) ==
    /\ PlayerId(player) # self
    /\ ~Dead(player)
    /\ \E i \in 1..Len(points) : Near(points[i], player.position)

\* hitPlayers.push(player.id) unless hitPlayers.includes(player.id)
RECURSIVE Collect(_, _, _, _)
Collect(list, self, points, hitPlayers) ==
    IF list = <<>> THEN hitPlayers
    ELSE Collect(Tail(list), self, points,
                 IF Struck(Head(list), self, points)
                      /\ PlayerId(Head(list)) \notin Range(hitPlayers)
                 THEN hitPlayers \o <<PlayerId(Head(list))>>
                 ELSE hitPlayers)

\* Faulty variant: the resolver without its guard on the number of points.
checkStrokeCollisions_Unguarded(players, self, stroke) ==
    Collect(Values(players), self, stroke.points, <<>>)

checkStrokeCollisions(players, self, stroke) ==
    IF Len(stroke.points) < 2 THEN <<>>
    ELSE Collect(Values(players), self, stroke.points, <<>>)

\* Faulty variant: the damage without its cap.
StrokeDamage_Uncapped(stroke) == Len(stroke.points) * PerPointDamage

StrokeDamage(stroke) == MathMin(Len(stroke.points) * PerPointDamage, DamageCap)

\* setup: how far setupGame (lines 757-808) has come; left: the cleanup of
\* its effect (lines 813-815) has run.
NoUi ==
    [isDrawing |-> FALSE, currentStroke |-> <<>>, awaiting |-> <<>>,
     drawn |-> 0, moves |-> 0, setup |-> "done", left |-> FALSE]

\* Points the mouse can add, relative to the player (lines 918-922).
PointOffsets == {Pos(0, 0, 0), Pos(40, 0, -10)}

Plus(a, b) == Pos(a.x + b.x, a.y + b.y, a.z + b.z)

startDrawing(p) ==
    /\ p \in room
    /\ ~crashed[p]
    /\ ui[p].drawn < MaxDrawn
    /\ ui' = [ui EXCEPT ![p].isDrawing = TRUE,
                        ![p].drawn = @ + 1,
                        ![p].currentStroke =
                            <<[id |-> now, points |-> <<>>, timestamp |-> now]>>]
    /\ UNCHANGED <<tournamentVars, app>>
    /\ last' = Op("startDrawing", p, "", 0, 0, <<>>)
    /\ UNCHANGED <<gameState, closure, dirty, crashed, room, loopback, net, now, outcome>>

\* The mousemove and mouseup listeners are those of the last render (lines
\* 1008-1018) and read the players that render showed: they are modelled on a
\* peer whose render is current, so that gameState is what they read.
handleMouseMove(p, offset, bound) ==
    /\ p \in room
    /\ ~crashed[p]
    /\ ~dirty[p]
    /\ ui[p].isDrawing
    /\ ui[p].currentStroke # <<>>
    /\ Has(gameState[p].players, p)
    /\ Len(ui[p].currentStroke[1].points) < bound
    /\ ui' = [ui EXCEPT ![p].currentStroke[1].points =
                 Append(@, Plus(gameState[p].players[p].position, offset))]
    /\ UNCHANGED <<tournamentVars, app>>
    /\ last' = Op("mouseMove", p, "", 0, 0, <<>>)
    /\ UNCHANGED <<gameState, closure, dirty, crashed, room, loopback, net, now, outcome>>

\* stopDrawing up to its await: the collision check and the publish.
stopDrawing(p) ==
    /\ p \in room
    /\ ~crashed[p]
    /\ ~dirty[p]
    /\ ui[p].isDrawing
    /\ ui[p].currentStroke # <<>>
    /\ LET stroke == ui[p].currentStroke[1]
           hitPlayers == checkStrokeCollisions(gameState[p].players, p, stroke)
           damage == StrokeDamage(stroke)
       IN  /\ Publish(p, "pen_stroke",
                      [playerId |-> p, stroke |-> stroke,
                       hitPlayers |-> hitPlayers, damage |-> damage])
           /\ ui' = [ui EXCEPT ![p].isDrawing = FALSE,
                               ![p].awaiting =
                                   <<[hitPlayers |-> hitPlayers, damage |-> damage]>>]
           /\ UNCHANGED <<tournamentVars, app>>
           /\ last' = Op("stopDrawing", p, "", Len(stroke.points), 0, <<>>)
    /\ UNCHANGED <<gameState, closure, dirty, crashed, room, loopback, now, outcome>>

\* stopDrawing after its await: the optimistic damage, lines 989-1005.
stopDrawingResume(p) ==
    /\ p \in room
    /\ ~crashed[p]
    /\ ui[p].awaiting # <<>>
    /\ LET a == ui[p].awaiting[1]
       IN  /\ SetGameState(p, FALSE,
                  IF Len(a.hitPlayers) > 0
                  THEN [gameState[p] EXCEPT !.players =
                            ApplyDamage(@, a.hitPlayers, a.damage)]
                  ELSE gameState[p],
                  "none")
           /\ UNCHANGED <<tournamentVars, app>>
           /\ last' = Op("stopDrawingResume", p, "", a.damage, 0, a.hitPlayers)
    /\ ui' = [ui EXCEPT ![p].currentStroke = <<>>, ![p].awaiting = <<>>]
    /\ UNCHANGED <<closure, room, loopback, net, now>>

----------------------------------------------------------------------------
(* Movement: the effect at lines 705-753 *)

\* Faulty variant: no boundary constraint.
Clamp_None(v) == v

Clamp(v) == IF v < -ArenaHalf THEN -ArenaHalf ELSE IF v > ArenaHalf THEN ArenaHalf ELSE v

Step(held) == IF held THEN MoveSpeed ELSE 0

NewPosition(position, keys) ==
    Pos(Clamp(position.x - Step("KeyA" \in keys) + Step("KeyD" \in keys)),
        position.y,
        Clamp(position.z - Step("KeyW" \in keys) + Step("KeyS" \in keys)))

Moved(keys) == keys \cap {"KeyW", "KeyS", "KeyA", "KeyD"} # {}

\* The effect runs after a render, on the player that render showed.
MoveEffect(p, keys) ==
    /\ p \in room
    /\ ~crashed[p]
    /\ ~dirty[p]
    /\ Has(gameState[p].players, p)
    /\ LET currentPlayer == gameState[p].players[p]
           newPosition == NewPosition(currentPlayer.position, keys)
       IN  IF Moved(keys)
           THEN /\ SetGameState(p, FALSE,
                       [gameState[p] EXCEPT !.players[p] =
                            With(@, "position", newPosition)],
                       "none")
                /\ Publish(p, "player_move",
                           [playerId |-> p, position |-> newPosition,
                            rotation |-> currentPlayer.rotation])
           ELSE UNCHANGED <<gameState, dirty, crashed, net, outcome>>
    /\ UNCHANGED <<tournamentVars, app>>
    /\ last' = Op("move", p, "", Cardinality(keys), 0, <<>>)
    /\ UNCHANGED <<closure, room, loopback, now>>

\* A run of the effect, counted.
Move(p, keys, bound) ==
    /\ ui[p].moves < bound
    /\ MoveEffect(p, keys)
    /\ ui' = [ui EXCEPT ![p].moves = @ + 1]

\* A run of the effect in an arena whose walls bound the walk.
Walk(p, keys) == MoveEffect(p, keys) /\ UNCHANGED ui

----------------------------------------------------------------------------
(* TournamentSystem: unnamed/part_001 *)

TournamentMaxPlayers == 8

\* JSON.stringify of a list and JSON.parse of the column's text
Stringify(list) == [json |-> list]
Parse(text) == text.json

\* newPlayer of joinTournament, lines 137-145; its name and colour play no
\* part in a registration
TournamentPlayer(u) ==
    [id |-> u, wins |-> 0, losses |-> 0, score |-> 0, status |-> "waiting"]

\* the row createTournament stores, lines 97-119
CreatedRow ==
    [status |-> "registration", maxPlayers |-> TournamentMaxPlayers,
     currentPlayers |-> Stringify(<<>>), matches |-> Stringify(<<>>),
     currentRound |-> 1]

\* a row as loadTournaments hands it to setTournaments, lines 84-88
Loaded(row) ==
    [row EXCEPT !.currentPlayers = Parse(@), !.matches = Parse(@)]

\* where: { status: ['registration', 'active'] }
Listed(row) ==
    IF row.status \in {"registration", "active"} THEN <<Loaded(row)>> ELSE <<>>

\* selectedTournament is null, a load runs from the mount effect (line 56)
NoCalls == [selectedTournament |-> <<>>, loading |-> TRUE, joined |-> FALSE]

InitTournaments ==
    /\ db = CreatedRow
    /\ tournaments = [u \in Ids |-> <<>>]
    /\ calls = [u \in Ids |-> NoCalls]

Members(t) == {t.currentPlayers[i].id : i \in 1..Len(t.currentPlayers)}

\* channel.onMessage, lines 66-70: what a published payload makes a
\* subscriber do
Reloads(data) == Has(data, "type") /\ data.type = "tournament_update"

\* the publisher reloads by its own call; a subscriber by its listener
Notified(u, data, joined) ==
    [v \in Ids |->
        IF v = u
        THEN [calls[v] EXCEPT !.loading = TRUE, !.joined = @ \/ joined]
        ELSE [calls[v] EXCEPT !.loading = @ \/ Reloads(data)]]

Outcome(ok) == IF ok THEN "ok" ELSE "failed"

\* loadTournaments, lines 76-92; ok: blink.db.tournaments.list resolved
loadTournaments(u, ok) ==
    /\ calls[u].loading
    /\ tournaments' = [tournaments EXCEPT ![u] = IF ok THEN Listed(db) ELSE @]
    /\ calls' = [calls EXCEPT ![u].loading = FALSE]
    /\ UNCHANGED db
    /\ UNCHANGED <<arenaVars, app>>
    /\ last' = Op("loadTournaments", u, Outcome(ok), 0, 0, <<>>)

\* joinTournament, lines 133-166, on the tournament of the user's list whose
\* Join button (lines 464-466) was clicked; ok: the update resolved
joinTournament(u, ok) ==
    /\ tournaments[u] # <<>>
    /\ LET tournament == tournaments[u][1]
           updatedPlayers == tournament.currentPlayers \o <<TournamentPlayer(u)>>
           data == [type |-> "player_joined", player |-> TournamentPlayer(u)]
       IN  /\ tournament.status = "registration"
           /\ ~(Len(tournament.currentPlayers) >= tournament.maxPlayers)
           /\ u \notin Members(tournament)
           /\ IF ok
              THEN /\ db' = [db EXCEPT !.currentPlayers = Stringify(updatedPlayers)]
                   /\ calls' = Notified(u, data, TRUE)
              ELSE UNCHANGED <<db, calls>>
           /\ UNCHANGED tournaments
           /\ UNCHANGED <<arenaVars, app>>
           /\ last' = Op("joinTournament", u, Outcome(ok), Len(updatedPlayers), 0, <<>>)

\* a click on a tournament's card, line 423
selectTournament(u) ==
    /\ tournaments[u] # <<>>
    /\ calls[u].selectedTournament # tournaments[u]
    /\ calls' = [calls EXCEPT ![u].selectedTournament = tournaments[u]]
    /\ UNCHANGED <<db, tournaments>>
    /\ UNCHANGED <<arenaVars, app>>
    /\ last' = Op("selectTournament", u, "", 0, 0, <<>>)

\* the orders the shuffle of lines 175-179 can leave n players in
Orders(n) ==
    {f \in [1..n -> 1..n] : \A i, j \in 1..n : f[i] = f[j] => i = j}

Shuffled(players, order) == [i \in 1..Len(players) |-> players[order[i]]]

\* matches.push({...}), lines 184-191; i counts from 0
Match(players, i, matches) ==
    [id |-> i, player1 |-> players[i + 1], player2 |-> players[i + 2],
     status |-> "pending", round |-> 1, roomId |-> Len(matches) + 1]

\* Faulty variant: the loop steps by one, so neighbours share a player.
RECURSIVE Pairs_Overlapping(_, _, _)
Pairs_Overlapping(players, i, matches) ==
    IF ~(i < Len(players)) THEN matches
    ELSE Pairs_Overlapping(players, i + 1,
             IF i + 1 < Len(players)
             THEN matches \o <<Match(players, i, matches)>>
             ELSE matches)

\* for (let i = 0; i < players.length; i += 2), lines 182-193
RECURSIVE Pairs(_, _, _)
Pairs(players, i, matches) ==
    IF ~(i < Len(players)) THEN matches
    ELSE Pairs(players, i + 2,
             IF i + 1 < Len(players)
             THEN matches \o <<Match(players, i, matches)>>
             ELSE matches)

\* startTournament, lines 168-213, on selectedTournament; ok: the update
\* resolved.  The Start button (lines 512-514) shows for two players or more:
\* the function is run on every selected tournament, so that its own guard
\* (line 169) decides.
startTournament(u, ok) ==
    /\ calls[u].selectedTournament # <<>>
    /\ LET tournament == calls[u].selectedTournament[1]
           n == Len(tournament.currentPlayers)
           data == [type |-> "tournament_started"]
       IN  /\ IF n < 2 \/ ~ok
              THEN UNCHANGED <<db, calls>>
              ELSE \E order \in Orders(n) :
                      /\ db' = [db EXCEPT
                                  !.status = "active",
                                  !.matches = Stringify(
                                      Pairs(Shuffled(tournament.currentPlayers, order),
                                            0, <<>>)),
                                  !.currentRound = 1]
                      /\ calls' = Notified(u, data, FALSE)
           /\ UNCHANGED tournaments
           /\ UNCHANGED <<arenaVars, app>>
           /\ last' = Op("startTournament", u, Outcome(ok), n, 0, <<>>)

----------------------------------------------------------------------------
(* App: the navigation of SoundManager.tsx, lines 67-206 *)

Null == "null"
GameModeIds ==
    {"deathmatch", "target_practice", "time_attack", "team_battle",
     "lightning_round", "king_of_hill"}
RoomIds == {"R1", "R2", "R3"}
\* the lobby joins with a name (GameLobby.tsx 64); TournamentSystem passes
\* its playerName, which may be ''
LobbyNames == {"ann", "bob"}
MatchNames == {"", "ann"}

InitApp ==
    app = [gameState |-> "lobby", currentRoom |-> "", playerName |-> "",
           selectedGameMode |-> Null, soundEnabled |-> TRUE]

AppStep(name, tag) ==
    /\ UNCHANGED <<arenaVars, tournamentVars>>
    /\ last' = Op(name, "A", tag, 0, 0, <<>>)

\* lines 86-90; wired to GameLobby and to TournamentSystem
handleJoinGame(roomId, name) ==
    /\ \/ app.gameState = "lobby" /\ name \in LobbyNames
       \/ app.gameState = "tournaments" /\ name \in MatchNames
    /\ app' = [app EXCEPT !.currentRoom = roomId, !.playerName = name,
                          !.gameState = "mode-select"]
    /\ AppStep("handleJoinGame", roomId)

\* lines 92-95; GameModeSelector calls it with the mode it holds (its lines 93-97)
handleSelectGameMode(mode) ==
    /\ app.gameState = "mode-select"
    /\ app' = [app EXCEPT !.selectedGameMode = mode, !.gameState = "playing"]
    /\ AppStep("handleSelectGameMode", mode)

\* lines 97-102; wired to every screen but the lobby and the arena
handleBackToLobby ==
    /\ app.gameState \in {"mode-select", "spectator", "tournaments", "leaderboard"}
    /\ app' = [app EXCEPT !.gameState = "lobby", !.currentRoom = "",
                          !.playerName = "", !.selectedGameMode = Null]
    /\ AppStep("handleBackToLobby", app.gameState)

\* Faulty variant: the room and the name survive the return.
handleLeaveGame_KeepsRoom ==
    /\ app.gameState = "playing" /\ app.selectedGameMode # Null
    /\ app' = [app EXCEPT !.selectedGameMode = Null, !.gameState = "lobby"]
    /\ AppStep("handleLeaveGame", "")

\* lines 104-109; wired to GameArena, which renders in 'playing' with a mode
handleLeaveGame ==
    /\ app.gameState = "playing" /\ app.selectedGameMode # Null
    /\ app' = [app EXCEPT !.currentRoom = "", !.playerName = "",
                          !.selectedGameMode = Null, !.gameState = "lobby"]
    /\ AppStep("handleLeaveGame", "")

\* onToggleSound of the lobby, line 160
onToggleSound ==
    /\ app.gameState = "lobby"
    /\ app' = [app EXCEPT !.soundEnabled = ~@]
    /\ AppStep("onToggleSound", "")

\* lines 111-114
handleNavigateToSpectator(roomId) ==
    /\ app.gameState = "lobby"
    /\ app' = [app EXCEPT !.currentRoom = roomId, !.gameState = "spectator"]
    /\ AppStep("handleNavigateToSpectator", roomId)

\* lines 116-118
handleNavigateToTournaments ==
    /\ app.gameState = "lobby"
    /\ app' = [app EXCEPT !.gameState = "tournaments"]
    /\ AppStep("handleNavigateToTournaments", "")

\* lines 120-122
handleNavigateToLeaderboard ==
    /\ app.gameState = "lobby"
    /\ app' = [app EXCEPT !.gameState = "leaderboard"]
    /\ AppStep("handleNavigateToLeaderboard", "")

----------------------------------------------------------------------------
(* Specifications *)

InitCommon ==
    /\ gameState = [p \in Peers |-> InitialGameState]
    /\ closure = [p \in Peers |-> Empty]
    /\ dirty = [p \in Peers |-> FALSE]
    /\ crashed = [p \in Peers |-> FALSE]
    /\ ui = [p \in Peers |-> NoUi]
    /\ net = {}
    /\ now = 0
    /\ outcome = [p \in Peers |-> [id \in PuIds |-> "none"]]
    /\ last = Op("init", "A", "", 0, 0, <<>>)
    /\ InitTournaments
    /\ InitApp

\* One peer in its room; the channel hands its reducer any GameMessage.
Init == InitCommon /\ room = {"A"} /\ loopback = FALSE

Presences(p, snapshots, positions) ==
    \E users \in snapshots :
        \E pos \in [users -> positions] : OnPresence(p, users, pos)

\* Combat: presence and the reducer on movement and combat messages.
Next ==
    \E p \in Peers :
        \/ Render(p)
        \/ Presences(p, PresenceSnapshots, {Pos(0, 0, 0)})
        \/ \E m \in CombatMessages : Receive(p, m)

Spec == Init /\ [][Next]_vars

\* Local strokes: the user of a peer draws while its opponent moves and is hit.
NextDraw ==
    \E p \in Peers :
        \/ Render(p)
        \/ Presences(p, PresenceSnapshots, {Pos(0, 0, 0)})
        \/ \E m \in DrawMessages : Receive(p, m)
        \/ startDrawing(p)
        \/ \E offset \in PointOffsets : handleMouseMove(p, offset, MaxPoints)
        \/ stopDrawing(p)
        \/ stopDrawingResume(p)

SpecDraw == Init /\ [][NextDraw]_vars

\* The power-up lifecycle of one peer under a running clock.
NextPower ==
    \/ \E p \in Peers :
        \/ Render(p)
        \/ Presences(p, PresenceSnapshots, {Pos(0, 0, 0)})
        \/ \E m \in PowerUpMessages : Receive(p, m)
        \/ Sweep(p)
        \/ \E id \in PuIds : LocalCollect(p, id)
    \/ Tick

SpecPower == Init /\ [][NextPower]_vars

\* Two peers of this repository in one room, joined by the channel.
InitNet == InitCommon /\ room = Peers /\ loopback = FALSE

\* The user of peer A plays; peer B watches.
NextNet ==
    \/ \E p \in Peers :
        \/ Render(p)
        \/ Presences(p, {Peers}, SpawnPositions)
        \/ \E e \in net : Deliver(p, e)
    \/ \E p \in {"A"} :
        \/ \E keys \in {{"KeyA"}, {"KeyW", "KeyS"}} : Move(p, keys, MaxMoves)
        \/ startDrawing(p)
        \/ handleMouseMove(p, Pos(0, 0, 0), MaxPoints)
        \/ stopDrawing(p)
        \/ stopDrawingResume(p)

SpecNet == InitNet /\ [][NextNet]_vars

\* One attacker among three players: long strokes, published to a subscriber.
\* The attacker is placed at the origin, each opponent on it or at the wall.
AttackPositions == {Pos(0, 0, 0), Pos(-158, 0, 0)}
AttackLayouts ==
    {[u \in Ids |-> IF u = "A" THEN Pos(0, 0, 0) ELSE f[u]] :
        f \in [Ids -> AttackPositions]}

NextAttack ==
    \/ \E p \in {"A"} :
        \/ Render(p)
        \/ \E pos \in AttackLayouts : OnPresence(p, Ids, pos)
        \/ startDrawing(p)
        \/ handleMouseMove(p, Pos(0, 0, 0), MaxLongPoints)
        \/ stopDrawing(p)
        \/ stopDrawingResume(p)
    \/ \E p \in Peers : \E e \in net : Deliver(p, e)

SpecAttack == InitNet /\ [][NextAttack]_vars

\* The same attack on a channel that delivers a publisher its own messages.
InitEcho == InitCommon /\ room = Peers /\ loopback = TRUE

NextEcho ==
    \/ \E p \in {"A"} :
        \/ Render(p)
        \/ \E pos \in AttackLayouts : OnPresence(p, Ids, pos)
        \/ startDrawing(p)
        \/ handleMouseMove(p, Pos(0, 0, 0), MaxPoints)
        \/ stopDrawing(p)
        \/ stopDrawingResume(p)
    \/ \E p \in Peers : \E e \in net : Deliver(p, e)

SpecEcho == InitEcho /\ [][NextEcho]_vars

\* One player walks from its spawn position to the corner of the arena and
\* on; a second subscriber receives what it publishes.
WalkSpawn == [u \in Peers |-> Pos(-97, 0, 97)]
WalkKeys == {{"KeyA", "KeyS"}, {"KeyW", "KeyS"}, {}}

NextWalk ==
    \/ \E p \in {"A"} :
        \/ Render(p)
        \/ OnPresence(p, Peers, WalkSpawn)
        \/ \E keys \in WalkKeys : Walk(p, keys)
    \/ \E p \in Peers : \E e \in net : Deliver(p, e)

SpecWalk == InitNet /\ [][NextWalk]_vars

\* The power-up lifecycle of a peer that publishes to a subscriber; net keeps
\* what it has published.
NextShop ==
    \/ \E p \in {"A"} :
        \/ Render(p)
        \/ OnPresence(p, Peers, [u \in Peers |-> Pos(0, 0, 0)])
        \/ \E m \in SpawnMessages : Receive(p, m)
        \/ \E id \in PuIds : LocalCollect(p, id)
    \/ Tick

SpecShop == InitNet /\ [][NextShop]_vars

\* A session under a running clock, with the moments at which spawns are due.
NextTimers ==
    \/ \E p \in {"A"} :
        \/ Render(p)
        \/ Presences(p, {Peers}, SpawnPositions)
        \/ \E m \in SpawnMessages : Receive(p, m)
        \/ Sweep(p)
        \/ \E id \in PuIds : \E rt \in TypeDraws : \E rx, rz \in CoordDraws :
              SpawnTimer(p, id, rt, rx, rz)
    \/ Tick

SpecTimers == InitNet /\ [][NextTimers]_vars

\* The same session with a clock that keeps running and renders that are not
\* put off for ever.
SpecLifecycle ==
    /\ InitNet
    /\ [][NextTimers]_vars
    /\ WF_vars(Tick)
    /\ \A p \in Peers : WF_vars(Render(p))

\* A peer enters a room another peer is subscribed to, plays and leaves.
InitLeave ==
    /\ gameState = [p \in Peers |-> InitialGameState]
    /\ closure = [p \in Peers |-> Empty]
    /\ dirty = [p \in Peers |-> FALSE]
    /\ crashed = [p \in Peers |-> FALSE]
    /\ ui = [p \in Peers |->
               IF p = "A" THEN [NoUi EXCEPT !.setup = "subscribing"] ELSE NoUi]
    /\ room = {"B"}
    /\ loopback = FALSE
    /\ net = {}
    /\ now = 0
    /\ outcome = [p \in Peers |-> [id \in PuIds |-> "none"]]
    /\ last = Op("init", "A", "", 0, 0, <<>>)
    /\ InitTournaments
    /\ InitApp

NextLeave ==
    \/ \E p \in {"A"} :
        \/ setupGameSubscribed(p)
        \/ setupGameJoined(p)
        \/ Leave(p)
        \/ Render(p)
        \/ Presences(p, {Peers}, SpawnPositions)
        \/ \E keys \in {{"KeyA"}} : Move(p, keys, MaxMoves)
        \/ \E m \in SpawnMessages : Receive(p, m)
        \/ Sweep(p)
    \/ \E p \in Peers : \E e \in net : Deliver(p, e)
    \/ Tick

SpecLeave == InitLeave /\ [][NextLeave]_vars

\* Presence events of every snapshot, between the moves of the opponents.
AllSnapshots == {{"A"}, {"A", "B"}, {"B", "C"}, Ids}

NextPresence ==
    \E p \in Peers :
        \/ Render(p)
        \/ Presences(p, AllSnapshots, DrawnPositions)
        \/ \E m \in DrawMessages : Receive(p, m)

SpecPresence == Init /\ [][NextPresence]_vars

\* The callback spawnPowerUp by itself, run whenever a timer would run it, and
\* the reducer on the power_up_spawn of another publisher.
NextSpawn ==
    \/ \E p \in {"A"} :
        \/ Render(p)
        \/ OnPresence(p, Peers, [u \in Peers |-> Pos(0, 0, 0)])
        \/ \E id \in PuIds : \E rt \in TypeDraws : \E rx, rz \in CoordDraws :
              spawnPowerUp(p, id, rt, rx, rz)
        \/ \E m \in SpawnMessages : Receive(p, m)
    \/ \E p \in Peers : \E e \in net : Deliver(p, e)

SpecSpawn == InitNet /\ [][NextSpawn]_vars

\* Everything that touches health or runs beside it: attacks received, the
\* peer's own strokes, its collects and the sweep.
HealthMessages ==
    {m \in DrawMessages : MsgType(m) \in {"pen_stroke", "player_attack"}}
    \cup {m \in CombatMessages :
             /\ MsgType(m) = "pen_stroke"
             /\ m.data.hitPlayers = <<"A", "B">> /\ m.data.damage = DamageCap}
    \cup {m \in SpawnMessages : m.data.powerUp.type = "health"}

NextHealth ==
    \E p \in Peers :
        \/ Render(p)
        \/ Presences(p, {Peers}, {Pos(0, 0, 0)})
        \/ \E m \in HealthMessages : Receive(p, m)
        \/ startDrawing(p)
        \/ handleMouseMove(p, Pos(0, 0, 0), MaxPoints)
        \/ stopDrawing(p)
        \/ stopDrawingResume(p)
        \/ Sweep(p)
        \/ \E id \in PuIds : LocalCollect(p, id)

SpecHealth == Init /\ [][NextHealth]_vars

\* A room that a spectator has subscribed to: the presence snapshots hold the
\* spectator beside the fighters.
SpectatedSnapshots == {{"A", "B"}, {"A", "S"}, {"A", "B", "S"}}

NextSpectate ==
    \E p \in Peers :
        \/ Render(p)
        \/ Presences(p, SpectatedSnapshots, AttackPositions)
        \/ startDrawing(p)
        \/ handleMouseMove(p, Pos(0, 0, 0), MaxPoints)
        \/ stopDrawing(p)
        \/ stopDrawingResume(p)

SpecSpectate == Init /\ [][NextSpectate]_vars

\* Two users of TournamentSystem register for one tournament.
Registrants == {"A", "B"}

NextJoin ==
    \E u \in Registrants : \E ok \in BOOLEAN :
        \/ loadTournaments(u, ok)
        \/ joinTournament(u, ok)

SpecJoin == Init /\ [][NextJoin]_vars

\* A tournament whose registration has gone on for a while: none to three
\* users have joined one after the other.  The organiser loads it, selects it
\* and starts it.
Registered == {<<>>, <<"A">>, <<"A", "B">>, <<"B", "C", "A">>}
Organisers == {"A"}

InitStart ==
    /\ gameState = [p \in Peers |-> InitialGameState]
    /\ closure = [p \in Peers |-> Empty]
    /\ dirty = [p \in Peers |-> FALSE]
    /\ crashed = [p \in Peers |-> FALSE]
    /\ ui = [p \in Peers |-> NoUi]
    /\ room = {"A"}
    /\ loopback = FALSE
    /\ net = {}
    /\ now = 0
    /\ outcome = [p \in Peers |-> [id \in PuIds |-> "none"]]
    /\ last = Op("init", "A", "", 0, 0, <<>>)
    /\ \E ids \in Registered :
          /\ db = [CreatedRow EXCEPT
                     !.currentPlayers =
                        Stringify([i \in 1..Len(ids) |-> TournamentPlayer(ids[i])])]
          /\ calls = [u \in Ids |-> [NoCalls EXCEPT !.joined = u \in Range(ids)]]
    /\ tournaments = [u \in Ids |-> <<>>]
    /\ InitApp

NextStart ==
    \E u \in Organisers : \E ok \in BOOLEAN :
        \/ loadTournaments(u, ok)
        \/ selectTournament(u)
        \/ startTournament(u, ok)

SpecStart == InitStart /\ [][NextStart]_vars

\* The screens of App.
NextApp ==
    \/ \E roomId \in RoomIds : \E name \in LobbyNames \cup MatchNames :
          handleJoinGame(roomId, name)
    \/ \E mode \in GameModeIds : handleSelectGameMode(mode)
    \/ handleBackToLobby
    \/ handleLeaveGame
    \/ \E roomId \in RoomIds : handleNavigateToSpectator(roomId)
    \/ handleNavigateToTournaments
    \/ handleNavigateToLeaderboard
    \/ onToggleSound

SpecApp == Init /\ [][NextApp]_vars

\* Movement of the opponents as one peer sees it.
NextMove ==
    \E p \in Peers :
        \/ Render(p)
        \/ Presences(p, PresenceSnapshots, {Pos(0, 0, 0)})
        \/ \E m \in MoveMessages : Receive(p, m)

SpecMove == Init /\ [][NextMove]_vars

\* Messages of any shape, followed by sweeps and collects.
NextFault ==
    \E p \in Peers :
        \/ Render(p)
        \/ Presences(p, PresenceSnapshots, {Pos(0, 0, 0)})
        \/ \E m \in FaultMessages : Receive(p, m)
        \/ Sweep(p)
        \/ \E id \in PuIds : LocalCollect(p, id)

SpecFault == Init /\ [][NextFault]_vars

----------------------------------------------------------------------------
(* Properties *)

Players(p) == gameState[p].players

NumericHealth(player) == Has(player, "health") /\ player.health # NaN

\* C1: every entry of every peer's players mapping has 0 <= health <= maxHealth.
HealthInRange ==
    \A p \in Peers : \A id \in DOMAIN Players(p) :
        /\ NumericHealth(Players(p)[id])
        /\ Has(Players(p)[id], "maxHealth")
        /\ 0 <= Players(p)[id].health
        /\ Players(p)[id].health <= Players(p)[id].maxHealth

\* C2: a pen_stroke with damage d and struck list H takes every tracked player
\* of H from health h to max(0, h - d), once, and leaves every other player's
\* health alone, whatever the stroke's points are near.
PenStrokeDelta ==
    [][\A p \in Peers : \A m \in CombatMessages :
          last'.tag = "pen_stroke" /\ MsgType(m) = "pen_stroke" /\ Receive(p, m) =>
             /\ DOMAIN gameState'[p].players = DOMAIN Players(p)
             /\ \A id \in DOMAIN Players(p) :
                   NumericHealth(Players(p)[id]) =>
                      gameState'[p].players[id].health =
                         IF id \in Range(m.data.hitPlayers)
                         THEN IF Players(p)[id].health - m.data.damage > 0
                              THEN Players(p)[id].health - m.data.damage
                              ELSE 0
                         ELSE Players(p)[id].health]_vars

\* B was struck together with A by the one pen_stroke applied since the presence
\* event, although no stroke point is near B.
PenStrokeDeltaWitness ==
    /\ last = Op("recv", "A", "pen_stroke", 0, 0, <<>>)
    /\ DOMAIN Players("A") = {"A", "B"}
    /\ NumericHealth(Players("A")["B"])
    /\ Players("A")["B"].health = StartHealth - DamageCap
    /\ Len(Players("A")["B"].penStrokes) = 1
    /\ Players("A")["B"].position = Pos(-158, 0, 0)

\* C3: a player_move (pen_stroke) that peer A published and the channel delivers
\* to peer B takes the reducer's player_move (pen_stroke) branch: B's copy of
\* A's position is the published one (B's copy of A's strokes ends with the
\* published stroke).
WireShape ==
    [][\A p \in Peers : \A e \in net :
          Deliver(p, e) =>
             /\ e.type = "player_move" =>
                   /\ Has(gameState'[p].players, e.from)
                   /\ gameState'[p].players[e.from].position = e.data.position
             /\ e.type = "pen_stroke" /\ Has(Players(p), e.from) =>
                   gameState'[p].players[e.from].penStrokes =
                      Append(Players(p)[e.from].penStrokes, e.data.stroke)]_vars

\* C4: with nothing in flight and the same roster on every peer, the peers
\* hold the same position and health for every player.
Quiescent ==
    /\ net = {}
    /\ \A p \in Peers : ui[p].awaiting = <<>> /\ ~crashed[p]
    /\ \A p, q \in Peers : DOMAIN Players(p) = DOMAIN Players(q)

Convergence ==
    Quiescent =>
       \A p, q \in Peers : \A id \in DOMAIN Players(p) :
          /\ Players(p)[id].position = Players(q)[id].position
          /\ Players(p)[id].health = Players(q)[id].health

\* A collect of power-up id by player c at peer p: an inbound power_up_collect
\* or a local click.
CollectStep(p, c, id) ==
    /\ last'.op \in {"recv", "collect"}
    /\ \/ \E m  \in PowerUpMessages :
             /\ m.type = "power_up_collect" /\ m.playerId = c
             /\ m.data.powerUpId = id
             /\ Receive(p, m)
       \/ c = p /\ LocalCollect(p, id)

\* C5: a collect of a power-up that has left the mapping (it was collected or
\* it expired) changes nothing: no second effect is attached for its id.
CollectExactlyOnce ==
    [][\A p \in Peers : \A c \in Ids : \A id \in PuIds :
          /\ CollectStep(p, c, id) /\ ~crashed'[p]
          /\ outcome[p][id] # "none" /\ id \notin DOMAIN gameState[p].powerUps
          => /\ gameState'[p] = gameState[p]
             /\ EffectCount(gameState'[p].players) = EffectCount(Players(p))]_vars

\* C6: a collect removes the power-up from the mapping if and only if it
\* attaches one effect to the collecting player, in the same transition.
CollectAtomic ==
    [][\A p \in Peers : \A c \in Ids : \A id \in PuIds :
          CollectStep(p, c, id) /\ ~crashed'[p] =>
             ((id \in DOMAIN gameState[p].powerUps
                 /\ id \notin DOMAIN gameState'[p].powerUps)
              <=> (EffectsOf(gameState'[p].players, c) = EffectsOf(Players(p), c) + 1))]_vars

\* C7: a power-up identity that has left a peer's mapping, collected or
\* expired, is never in that mapping again.
PowerUpTerminal ==
    \A p \in Peers : \A id \in PuIds :
        outcome[p][id] # "none" => id \notin DOMAIN gameState[p].powerUps

\* C8 as claimed: no instance is in the mapping at a time >= timestamp + duration.
PowerUpAbsentAfterDuration ==
    \A p \in Peers : \A id \in DOMAIN gameState[p].powerUps :
        now < gameState[p].powerUps[id].timestamp + gameState[p].powerUps[id].duration

\* C8 as amended: the state an expiry sweep leaves holds no instance older
\* than its duration (now - timestamp > duration).
SweptPowerUps ==
    last.op = "sweep" /\ ~crashed[last.peer] =>
        \A id \in DOMAIN gameState[last.peer].powerUps :
            now <= gameState[last.peer].powerUps[id].timestamp
                     + gameState[last.peer].powerUps[id].duration

\* The sweep at 40 s removed the instance stamped 0.
SweptPowerUpsWitness ==
    /\ last.op = "sweep" /\ ~crashed[last.peer]
    /\ last.n = 1
    /\ now > PowerUpMs
    /\ outcome[last.peer]["pu1"] = "expired"
    /\ "pu1" \notin DOMAIN gameState[last.peer].powerUps

\* C9 as claimed: no effect is in a player's set at a time >= its expiry.
EffectAbsentAfterExpiry ==
    \A p \in Peers : \A id \in DOMAIN Players(p) :
        Has(Players(p)[id], "activePowerUps") =>
            \A i \in 1..Len(Players(p)[id].activePowerUps) :
                Players(p)[id].activePowerUps[i].endTime > now

\* C9 as amended: the state an expiry sweep leaves holds no effect whose
\* expiry has passed (endTime <= now).
SweptEffects ==
    last.op = "sweep" /\ ~crashed[last.peer] =>
        \A id \in DOMAIN Players(last.peer) :
            \A i \in 1..Len(Players(last.peer)[id].activePowerUps) :
                Players(last.peer)[id].activePowerUps[i].endTime > now

\* The sweep removed an effect at the very time of its expiry.
SweptEffectsWitness ==
    /\ last.op = "sweep" /\ ~crashed[last.peer]
    /\ last.k = 1
    /\ now = EffectMs
    /\ Has(Players(last.peer), last.peer)
    /\ Players(last.peer)[last.peer].activePowerUps = <<>>

\* C10: a stroke of fewer than 2 points strikes nobody, wherever the players
\* stand, and finishing it changes nobody's health.
ShortStrokeHitsNobody ==
    [][\A p \in Peers :
          /\ last'.op = "stopDrawing" /\ stopDrawing(p)
               /\ Len(ui[p].currentStroke[1].points) < 2 =>
                /\ ui'[p].awaiting[1].hitPlayers = <<>>
                /\ ui'[p].awaiting[1].damage < 2 * PerPointDamage
          /\ last'.op = "stopDrawingResume" /\ stopDrawingResume(p)
               /\ ui[p].awaiting[1].damage < 2 * PerPointDamage =>
                gameState'[p] = gameState[p]]_vars

\* A one-point stroke, drawn onto a living opponent, was finished.
ShortStrokeWitness ==
    /\ last = Op("stopDrawingResume", "A", "", PerPointDamage, 0, <<>>)
    /\ DOMAIN Players("A") = {"A", "B"}
    /\ NumericHealth(Players("A")["B"])
    /\ Players("A")["B"].health = StartHealth
    /\ Players("A")["B"].position = Players("A")["A"].position
    /\ ui["A"].drawn = 1

\* The players the resolver is to return for a stroke drawn by self: not the
\* attacker, health > 0, some point of the stroke closer than the hit radius.
InRange(players, self, points) ==
    {id \in DOMAIN players :
        /\ id # self
        /\ NumericHealth(players[id]) /\ players[id].health > 0
        /\ \E i \in 1..Len(points) : Near(points[i], players[id].position)}

\* C11: for a stroke of at least 2 points the resolver returns exactly the
\* players that are not the attacker, have health > 0 and have a stroke point
\* within the hit radius, each of them once.
ResolverExact ==
    [][\A p \in Peers :
          /\ last'.op = "stopDrawing" /\ stopDrawing(p)
          /\ Len(ui[p].currentStroke[1].points) >= 2
          => LET hits == ui'[p].awaiting[1].hitPlayers
                 want == InRange(Players(p), p, ui[p].currentStroke[1].points)
             IN  Range(hits) = want /\ Len(hits) = Cardinality(want)]_vars

\* C12: finishing a stroke of N points computes damage min(2 N, 25), publishes
\* a pen_stroke carrying that damage and the struck list, and the attacker's
\* peer then takes every player of the struck list from h to max(0, h - damage)
\* and leaves every other player's health alone.
AttackDamage ==
    [][\A p \in Peers :
          /\ last'.op = "stopDrawing" /\ stopDrawing(p) =>
                LET n == Len(ui[p].currentStroke[1].points)
                    d == IF PerPointDamage * n < DamageCap
                         THEN PerPointDamage * n ELSE DamageCap
                IN  /\ ui'[p].awaiting[1].damage = d
                    /\ \A q \in room \ {p} : \E e \in net' :
                          /\ e.to = q /\ e.from = p /\ e.type = "pen_stroke"
                          /\ e.data.damage = d
                          /\ e.data.hitPlayers = ui'[p].awaiting[1].hitPlayers
                          /\ e.data.stroke = ui[p].currentStroke[1]
          /\ last'.op = "stopDrawingResume" /\ stopDrawingResume(p) =>
                LET a == ui[p].awaiting[1]
                IN  /\ DOMAIN gameState'[p].players = DOMAIN Players(p)
                    /\ \A id \in DOMAIN Players(p) :
                          NumericHealth(Players(p)[id]) =>
                             gameState'[p].players[id].health =
                                IF id \in Range(a.hitPlayers)
                                THEN IF Players(p)[id].health - a.damage > 0
                                     THEN Players(p)[id].health - a.damage
                                     ELSE 0
                                ELSE Players(p)[id].health]_vars

\* A stroke of 13 points (2 * 13 > 25) struck B, who stands on it, and not C,
\* who stands at the wall: B lost 25 and C lost nothing.
AttackDamageWitness ==
    /\ last = Op("stopDrawingResume", "A", "", DamageCap, 0, <<"B">>)
    /\ DOMAIN Players("A") = Ids
    /\ Players("A")["B"].health = StartHealth - DamageCap
    /\ Players("A")["C"].health = StartHealth
    /\ Players("A")["A"].health = StartHealth
    /\ Len(ui["A"].currentStroke) = 0

InArena(position) ==
    /\ -ArenaHalf <= position.x /\ position.x <= ArenaHalf
    /\ -ArenaHalf <= position.z /\ position.z <= ArenaHalf

\* C13: whatever keys are held for however many steps, the position the
\* movement effect stores for the local player and every position it
\* publishes in a player_move lie within [-8, 8] on x and on z.
MoveInBounds ==
    /\ \A p \in Peers : Has(Players(p), p) => InArena(Players(p)[p].position)
    /\ \A e \in net : e.type = "player_move" => InArena(e.data.position)

\* The player, who walked from (-4.85, 0, 4.85) into the corner (-8, 0, 8),
\* has taken one more step towards it: the step changed nothing to render.
MoveInBoundsWitness ==
    /\ last.op = "move" /\ last.n = 2
    /\ ~dirty["A"]
    /\ Has(Players("A"), "A")
    /\ Players("A")["A"].position = Pos(-ArenaHalf, 0, ArenaHalf)
    /\ \E e \in net : e.type = "player_move"
                         /\ e.data.position = Pos(-ArenaHalf, 0, ArenaHalf)

\* C14: a movement step whose keys leave the position where it was (no
\* directional key, opposite keys together, a step the boundary absorbs)
\* publishes nothing and leaves the local state alone.
MoveOnlyOnChange ==
    [][\A p \in Peers : \A keys \in WalkKeys :
          /\ last'.op = "move" /\ Walk(p, keys)
          /\ NewPosition(Players(p)[p].position, keys) = Players(p)[p].position
          => net' = net /\ gameState' = gameState /\ dirty' = dirty]_vars

HandledTypes ==
    {"player_move", "pen_stroke", "player_attack", "power_up_spawn",
     "power_up_collect"}

\* C15: a message whose type tag is none of the five the reducer handles
\* leaves the GameState unchanged.
UnknownIgnored ==
    [][\A p \in Peers : \A m \in UnknownMessages :
          last'.op = "recv" /\ last'.tag \notin HandledTypes /\ Receive(p, m)
          => gameState' = gameState /\ crashed' = crashed]_vars

\* A player_join by B was applied by a peer that tracks only A: B is still
\* not tracked.
UnknownIgnoredWitness ==
    /\ last = Op("recv", "A", "player_join", 0, 0, <<>>)
    /\ DOMAIN Players("A") = {"A"}
    /\ ~crashed["A"]

\* The player identity a message refers to is not in the peer's mapping.
UnknownIdentity(players, m) ==
    \/ m.type \in {"player_move", "power_up_collect"} /\ ~Has(players, m.playerId)
    \/ m.type = "player_attack" /\ ~Has(players, m.data.targetId)

\* C16: a player_move from an author, a player_attack on a target or a
\* power_up_collect by a collector that the players mapping does not hold
\* changes nothing: no entry is created and no power-up is removed.
UnknownIdentityNoOp ==
    [][\A p \in Peers :
          \A m \in {x \in CombatMessages \cup PowerUpMessages : Has(x, "type")} :
             /\ last'.op = "recv" /\ last'.tag = m.type /\ Receive(p, m)
             /\ UnknownIdentity(Players(p), m)
             => gameState' = gameState]_vars

\* C17: no application of the reducer, no expiry sweep and no collect raises
\* an exception, whatever the message and whatever state earlier messages left.
NoException ==
    [][\A p \in Peers :
          crashed'[p] /\ ~crashed[p] =>
             last'.op \notin {"recv", "deliver", "sweep", "collect"}]_vars

\* The reducer applied to the messages of ms, in order.
RECURSIVE ApplyAll(_, _)
ApplyAll(gs, ms) ==
    IF ms = <<>> THEN gs
    ELSE ApplyAll(handleGameMessage(gs, Head(ms)), Tail(ms))

MoveSeqs == UNION {[1..n -> MoveMessages] : n \in 0..MaxMoveSeq}

LastBy(ms, a) ==
    LET I == {i \in DOMAIN ms : ms[i].playerId = a}
    IN  ms[CHOOSE i \in I : \A j \in I : j <= i]

\* C18: applying a player_move twice gives the state of applying it once, and
\* after any sequence of player_move messages every author's position and
\* rotation are those of that author's last message, whatever the other
\* authors sent in between.
MoveLastWins ==
    \A p \in Peers :
        /\ \A m \in MoveMessages :
              ApplyAll(gameState[p], <<m, m>>) = ApplyAll(gameState[p], <<m>>)
        /\ \A ms \in MoveSeqs :
              LET r == ApplyAll(gameState[p], ms)
              IN  \A a \in {ms[i].playerId : i \in DOMAIN ms} :
                     /\ r.players[a].position = LastBy(ms, a).data.position
                     /\ r.players[a].rotation = LastBy(ms, a).data.rotation

\* reached: both opponents have moved, to different places, and the last one
\* to move had a position before
MoveLastWinsWitness ==
    /\ last.op = "recv" /\ last.tag = "player_move"
    /\ Has(gameState["A"].players, "B") /\ Has(gameState["A"].players, "C")
    /\ gameState["A"].players["B"].position = Pos(40, 0, -10)
    /\ gameState["A"].players["B"].rotation = Pos(0, 20, 0)
    /\ gameState["A"].players["C"].position = Pos(-158, 0, 0)
    /\ Has(gameState["A"].players["B"], "health")

\* C19: on a channel that delivers a publisher its own messages, the reducer of
\* the attacker's peer applies the damage of its own pen_stroke to every struck
\* player once more, on top of the damage stopDrawing applied locally.
EchoDoublesDamage ==
    [][\A p \in Peers : \A e \in net :
          /\ last'.op = "deliver" /\ Deliver(p, e)
          /\ e.from = p /\ e.type = "pen_stroke"
          => \A id \in Range(e.data.hitPlayers) \cap DOMAIN gameState[p].players :
                gameState'[p].players[id].health =
                    MathMax0(gameState[p].players[id].health - e.data.damage)]_vars

\* C20: a presence event leaves every player that was tracked before it and
\* is in its snapshot as it was: position, health, strokes, effects, counters.
PresencePreserves ==
    [][\A p \in Peers :
          last'.op = "presence" /\ last'.peer = p =>
             \A id \in DOMAIN gameState[p].players \cap DOMAIN gameState'[p].players :
                Has(gameState[p].players[id], "health") =>
                   gameState'[p].players[id] = gameState[p].players[id]]_vars

IsPrefix(s, t) == Len(s) <= Len(t) /\ SubSeq(t, 1, Len(s)) = s

\* C21: the stroke list of a player only grows at its end: in every step, for
\* every player tracked before and after it, the old list is a prefix of the
\* new one.
StrokesAppendOnly ==
    [][\A p \in Peers :
          \A id \in DOMAIN gameState[p].players \cap DOMAIN gameState'[p].players :
             Has(gameState[p].players[id], "penStrokes") =>
                /\ Has(gameState'[p].players[id], "penStrokes")
                /\ IsPrefix(gameState[p].players[id].penStrokes,
                            gameState'[p].players[id].penStrokes)]_vars

\* C22: the effect a local collect attaches expires 10000 ms after the
\* collect, later than it was created, has multiplier 1.5 and the type of the
\* collected power-up, and the published power_up_collect carries that effect.
CollectedEffect ==
    [][\A p \in Peers : \A id \in PuIds :
          last'.op = "collect" /\ LocalCollect(p, id) /\ ~crashed'[p] =>
             LET effect == [type |-> closure[p][id].type,
                            endTime |-> now + EffectMs,
                            multiplier |-> Multiplier15]
             IN  /\ effect.endTime > now
                 /\ Has(Players(p), p) =>
                       gameState'[p].players[p].activePowerUps
                          = Players(p)[p].activePowerUps \o <<effect>>
                 /\ \E e \in net' :
                       /\ e.from = p /\ e.type = "power_up_collect"
                       /\ e.data.powerUpId = id /\ e.data.effect = effect]_vars

\* reached: 20 s into the session the player holds the effect of a collect
\* made at that time, and the subscriber's envelope carries it
CollectedEffectWitness ==
    /\ last.op = "collect" /\ last.peer = "A" /\ ~crashed["A"]
    /\ now = 2 * TickMs
    /\ Has(Players("A"), "A")
    /\ Players("A")["A"].activePowerUps # <<>>
    /\ \E e \in net :
          /\ e.to = "B" /\ e.type = "power_up_collect"
          /\ e.data.effect.endTime = now + EffectMs
          /\ e.data.effect =
                Players("A")["A"].activePowerUps[Len(Players("A")["A"].activePowerUps)]

\* C23: at every moment a spawn is due a power-up is spawned: a new instance
\* is in the peer's powerUps mapping and a power_up_spawn is published.
SpawnsWhenDue ==
    [][\A p \in Peers :
          last'.op \in {"spawn", "spawnDue"} /\ last'.peer = p =>
             /\ DOMAIN gameState'[p].powerUps # DOMAIN gameState[p].powerUps
             /\ \E e \in net' : e.from = p /\ e.type = "power_up_spawn"]_vars

\* C24: once a peer has left its room it publishes nothing and its GameState
\* changes no more, whatever was in flight when it left.
SilentAfterLeave ==
    [][\A p \in Peers :
          ui[p].left =>
             /\ gameState'[p] = gameState[p]
             /\ \A e \in net' \ net : e.from # p]_vars

\* C25: a local collect of a power-up that has left the GameState since the
\* render the click came from attaches no effect and publishes nothing.
StaleCollectIgnored ==
    [][\A p \in Peers : \A id \in PuIds :
          /\ last'.op = "collect" /\ LocalCollect(p, id) /\ ~crashed'[p]
          /\ id \notin DOMAIN gameState[p].powerUps
          => /\ gameState'[p] = gameState[p]
             /\ net' = net]_vars

\* C26: after a presence event the players mapping has exactly the ids of the
\* snapshot, and every player is new: health and maxHealth 100, no strokes, no
\* effects, score, kills and deaths 0, and a position inside the arena.
PresenceRebuilds ==
    [][\A p \in Peers : \A users \in AllSnapshots :
          /\ last'.op = "presence" /\ last'.n = Cardinality(users)
          /\ \E pos \in [users -> DrawnPositions] : OnPresence(p, users, pos)
          => /\ DOMAIN gameState'[p].players = users
             /\ \A id \in users :
                   LET player == gameState'[p].players[id]
                   IN  /\ player.health = StartHealth
                       /\ player.maxHealth = StartHealth
                       /\ player.penStrokes = <<>>
                       /\ player.activePowerUps = <<>>
                       /\ player.score = 0 /\ player.kills = 0 /\ player.deaths = 0
                       /\ InArena(player.position)]_vars

\* reached: a presence event of three users, one of them at a corner of the
\* spawn square
PresenceRebuildsWitness ==
    /\ last.op = "presence" /\ last.peer = "A" /\ last.n = 3
    /\ DOMAIN Players("A") = Ids
    /\ Players("A")["C"].position = Pos(SpawnHalf - 1, 0, 0 - SpawnHalf)

\* C27: a sweep removes the power-ups older than their duration and the
\* effects whose expiry has come, and nothing else: every other power-up and
\* effect stays, every other field of every player is as it was, and a sweep
\* that finds nothing expired leaves the GameState as it was.
SweepExact ==
    [][\A p \in Peers :
          last'.op = "sweep" /\ Sweep(p) /\ ~crashed'[p] =>
             LET old == gameState[p]
                 new == gameState'[p]
                 kept == {id \in DOMAIN old.powerUps :
                             now - old.powerUps[id].timestamp
                                <= old.powerUps[id].duration}
                 live(id) == SelectSeq(old.players[id].activePowerUps,
                                       LAMBDA pu : pu.endTime > now)
             IN  /\ DOMAIN new.powerUps = kept
                 /\ \A id \in kept : new.powerUps[id] = old.powerUps[id]
                 /\ DOMAIN new.players = DOMAIN old.players
                 /\ \A id \in DOMAIN old.players :
                       new.players[id] =
                          [old.players[id] EXCEPT !.activePowerUps = live(id)]
                 /\ new.gameStatus = old.gameStatus
                 /\ (kept = DOMAIN old.powerUps
                       /\ \A id \in DOMAIN old.players :
                             live(id) = old.players[id].activePowerUps)
                      => new = old]_vars

\* reached: a sweep removed one effect and left a younger effect and a
\* power-up in place
SweepExactWitness ==
    /\ last.op = "sweep" /\ last.peer = "A" /\ ~crashed["A"]
    /\ last.k = 1 /\ last.n = 0
    /\ gameState["A"].powerUps # Empty
    /\ \E id \in DOMAIN Players("A") : Players("A")[id].activePowerUps # <<>>

\* C28: a spawned instance lies inside the arena, has one of the five types
\* and duration 30000 ms, enters the local powerUps mapping under its own id
\* and is what the published power_up_spawn carries; the reducer puts the
\* instance of a power_up_spawn under its id; both leave every other power-up
\* and every player alone.
SpawnedInstance ==
    [][\A p \in Peers :
          /\ last'.op = "spawn" /\ last'.peer = p =>
                LET id == last'.tag
                    powerUp == gameState'[p].powerUps[id]
                IN  /\ powerUp.id = id
                    /\ InArena(powerUp.position)
                    /\ powerUp.type \in {"speed", "damage", "health", "shield",
                                          "multishot"}
                    /\ powerUp.duration = PowerUpMs
                    /\ gameState'[p] =
                          [gameState[p] EXCEPT !.powerUps = Put(@, id, powerUp)]
                    /\ \E e \in net' :
                          /\ e.from = p /\ e.type = "power_up_spawn"
                          /\ e.data.powerUp = powerUp
          /\ \A m \in SpawnMessages :
                last'.op = "recv" /\ last'.tag = "power_up_spawn" /\ Receive(p, m) =>
                   gameState'[p] =
                      [gameState[p] EXCEPT
                          !.powerUps = Put(@, m.data.powerUp.id, m.data.powerUp)]]_vars

\* reached: a multishot spawned in a corner of the arena, next to a power-up
\* received before, and on its way to the subscriber
SpawnedInstanceWitness ==
    /\ last.op = "spawn" /\ last.peer = "A"
    /\ DOMAIN gameState["A"].powerUps = PuIds
    /\ gameState["A"].powerUps[last.tag].type = "multishot"
    /\ gameState["A"].powerUps[last.tag].position = Pos(0 - ArenaHalf, 20, ArenaHalf - 1)
    /\ \E e \in net :
          /\ e.to = "B" /\ e.type = "power_up_spawn"
          /\ e.data.powerUp = gameState["A"].powerUps[last.tag]

\* C29: a peer's players mapping never has more entries than the maxPlayers
\* of the room's game mode.
PlayersWithinMode ==
    \A p \in Peers :
        Cardinality(DOMAIN Players(p)) <= gameState[p].gameMode.maxPlayers

\* C30: the status of a game moves along waiting, countdown, playing,
\* finished and never back, and the game of a timed mode is eventually
\* finished.
StatusOrder == <<"waiting", "countdown", "playing", "finished">>

StatusRank(status) == CHOOSE i \in DOMAIN StatusOrder : StatusOrder[i] = status

SpawnGated ==
    [][\A p \in Peers :
          gameState[p].gameStatus # "playing" =>
             /\ \A e \in net' \ net : ~(e.from = p /\ e.type = "power_up_spawn")
             /\ last'.peer = p /\ last'.op \in {"spawn", "spawnDue"} =>
                   gameState'[p] = gameState[p]
             /\ last'.op \notin {"recv", "deliver"} =>
                   DOMAIN gameState'[p].powerUps \subseteq DOMAIN gameState[p].powerUps]_vars

\* reached: 20 s into a session in status 'waiting' a spawn was due, and the
\* peer has no power-up and has published nothing
SpawnGatedWitness ==
    /\ last.op = "spawnDue" /\ last.peer = "A"
    /\ now = 2 * TickMs
    /\ gameState["A"].gameStatus = "waiting"
    /\ Has(Players("A"), "A")
    /\ gameState["A"].powerUps = Empty
    /\ net = {}

\* the messages that carry a health delta
DeltaMessages ==
    {m \in CombatMessages \cup DrawMessages :
        \/ MsgType(m) = "player_attack"
        \/ /\ MsgType(m) = "pen_stroke"
           /\ m.data.hitPlayers \in {<<"A">>, <<"A", "B">>}
           /\ m.data.damage > 0}

HealthOf(gs) == [id \in DOMAIN gs.players |-> Num(gs.players[id], "health")]

\* C32: in every state, two pen_stroke or player_attack messages applied in
\* either order leave every player with the same health.
DeltasCommute ==
    \A p \in room : \A m1, m2 \in DeltaMessages :
        HealthOf(ApplyAll(gameState[p], <<m1, m2>>))
            = HealthOf(ApplyAll(gameState[p], <<m2, m1>>))

\* reached: a player has taken two deltas of different size and a third one,
\* larger than what health was left, would clamp
DeltasCommuteWitness ==
    /\ last.op = "recv" /\ last.tag \in {"pen_stroke", "player_attack"}
    /\ Has(Players("A"), "A") /\ Has(Players("A"), "B")
    /\ NumericHealth(Players("A")["B"])
    /\ Players("A")["A"].health = StartHealth - 10 - DamageCap
    /\ Players("A")["B"].health = StartHealth - 3 * DamageCap

\* C33: no step other than a presence event raises the health of a player:
\* a message received, the peer's own stroke, a collect and a sweep leave
\* every health where it was or lower, and at 0 once it is 0.
HealthNeverRises ==
    [][\A p \in Peers :
          last'.op # "presence" =>
             \A id \in DOMAIN Players(p) \cap DOMAIN gameState'[p].players :
                NumericHealth(Players(p)[id]) =>
                   /\ NumericHealth(gameState'[p].players[id])
                   /\ gameState'[p].players[id].health <= Players(p)[id].health
                   /\ gameState'[p].players[id].health >= 0]_vars

\* reached: the peer's own stroke struck a player whose health was 0 already
HealthNeverRisesWitness ==
    /\ last.op = "stopDrawingResume" /\ last.peer = "A"
    /\ "B" \in Range(last.hits)
    /\ last.n > 0
    /\ Players("A")["B"].health = 0
    /\ Players("A")["A"].health = StartHealth

\* the fields of a player record other than position and rotation
Rest(rec) ==
    [f \in DOMAIN rec \ {"position", "rotation"} |-> rec[f]]

SpectatorsUntracked ==
    \A p \in Peers : \A u \in Spectators : ~Has(Players(p), u)

\* the messages of the types the arena reducer handles, well formed
ArenaHandled ==
    {m \in CombatMessages \cup DrawMessages \cup MoveMessages \cup PowerUpMessages :
        MsgType(m) \in HandledTypes}

\* C36: from equal players mappings, the spectator's reducer and the arena's
\* reducer give equal players mappings on every message of a type the arena
\* reducer handles.
ReducersAgree ==
    \A p \in room : \A m \in ArenaHandled :
        ~Throws(gameState[p], m) =>
            SpectatorHandleGameMessage(gameState[p], m).players
                = handleGameMessage(gameState[p], m).players

\* C37: every user whose joinTournament completed is among the stored
\* currentPlayers, whatever the other users did from the list they had loaded.
JoinsKept ==
    \A u \in Ids :
        calls[u].joined => u \in Members(Loaded(db))

\* the first-round matches stored by a start, and the players they seat
StoredMatches(row) == Parse(row.matches)
Seats(matches) ==
    [k \in 1..(2 * Len(matches)) |->
        IF k % 2 = 1 THEN matches[(k + 1) \div 2].player1.id
                     ELSE matches[k \div 2].player2.id]

Navigated ==
    /\ app.gameState = "playing" => app.selectedGameMode # Null
    /\ app.gameState = "lobby" =>
          /\ app.currentRoom = ""
          /\ app.playerName = ""
          /\ app.selectedGameMode = Null

\* C39: the screen 'playing' has a selected game mode and is entered from
\* 'mode-select' only; the screen 'lobby' has no room, no player name and no
\* selected mode, however it was returned to.
AppNavigation ==
    /\ []Navigated
    /\ [][app'.gameState = "playing" /\ app.gameState # "playing"
             => app.gameState = "mode-select"]_vars

\* reached: the lobby, on leaving a game
AppNavigationWitness ==
    /\ last.op = "handleLeaveGame"
    /\ app.gameState = "lobby"
    /\ app.currentRoom = ""

====
